---- MODULE Spec2Model ----
(***************************************************************************)
(* The todo backend as a state machine: the user directory, the bearer    *)
(* tokens, the session authenticator and the todo handlers.               *)
(*                                                                         *)
(* The repository holds three variants of the application:               *)
(*   backend/   src/backend/src/{api,services,models}  (UUID keys,        *)
(*              is_active flag, get_current_active_user)                   *)
(*   index.py   src/api/index.py  (integer keys, no is_active)             *)
(*   main.py    src/api/main.py   (todo handlers without authentication)   *)
(* backend/ has a database of its own.  index.py and main.py live in the   *)
(* same directory, read the same DATABASE_URL and declare the same tables  *)
(* "user" and "todo" (src/api/init_db.py creates them from index.py's      *)
(* models), so their todo handlers act on one database.  The variable app  *)
(* says which of the two databases a behaviour is about.                   *)
(***************************************************************************)
EXTENDS Integers, Sequences, FiniteSets, TLC

VARIABLES
    app,        \* "backend" or "api": the deployment (and its database)
    users,      \* table "user": set of rows [id, email, password_hash, is_active]
    todos,      \* table "todo": set of rows
    nextTodoId, \* the next primary key of table "todo"
    createdBy,  \* history: todo id -> id of the user authenticated when it was created
    inflight,   \* registrations that passed the existence check, not yet inserted
    held,       \* tokens login has issued that clients still hold
    now,        \* the clock, in minutes
    last,       \* the most recent response, with what the request was about
    hash_password,  \* credential hasher alone: the password given to the hash
    check_password, \* credential hasher alone: the password given to the verification
    stored_hash,    \* credential hasher alone: what the hash returned
    verified        \* credential hasher alone: what the verification returned

\* the variables of the credential hasher taken alone; the routes leave them as
\* they are
hasher_vars == <<hash_password, check_password, stored_hash, verified>>

vars == <<app, users, todos, nextTodoId, createdBy, inflight, held, now, last,
          hasher_vars>>

(***************************************************************************)
(* Bounds of the model.                                                    *)
(***************************************************************************)
MaxTodos == 1
MaxInflight == 1
MaxHeld == 1
MaxTime == 30

(***************************************************************************)
(* Program constants.                                                      *)
(***************************************************************************)
ACCESS_TOKEN_EXPIRE_MINUTES == 30
MinPasswordChars == 8
MaxPasswordBytes == 72
TruncateBytes == 71

Apps == {"backend", "api"}
Emails == {"alice", "bob"}
NoUser == 0
NoTodo == 0

(***************************************************************************)
(* Passwords are sequences of characters; a character has a UTF-8 width.   *)
(***************************************************************************)
CharBytes(c) == CASE c = "e_acute" -> 2 [] c = "euro" -> 3 [] OTHER -> 1

RECURSIVE Utf8(_)
Utf8(s) ==
    IF s = << >> THEN << >>
    ELSE Utf8(SubSeq(s, 1, Len(s) - 1))
         \o [i \in 1..CharBytes(s[Len(s)]) |-> <<s[Len(s)], i>>]

Utf8Len(s) == Len(Utf8(s))

PwGood == <<"p", "a", "s", "s", "w", "o", "r", "d">>
PwShort == <<"s", "e", "c", "r", "e", "t", "1">>
Passwords == {PwGood, PwShort}

(***************************************************************************)
(* Credential hasher.  bcrypt's salt is left out: a hash is the scheme     *)
(* and the bytes that were hashed, and checkpw compares those bytes.       *)
(***************************************************************************)
bcrypt_hashpw(bytes) == [scheme |-> "bcrypt", key |-> bytes]

bcrypt_checkpw(bytes, hashed) == hashed.scheme = "bcrypt" /\ hashed.key = bytes

RECURSIVE truncate_password(_)
truncate_password(p) ==
    IF Utf8Len(p) > TruncateBytes
    THEN truncate_password(SubSeq(p, 1, Len(p) - 1))
    ELSE p

\* faulty variant: the verification does not truncate as the hash does
verify_password_untruncated(plain_password, hashed_password) ==
    bcrypt_checkpw(Utf8(plain_password), hashed_password)

verify_password(plain_password, hashed_password) ==
    bcrypt_checkpw(Utf8(truncate_password(plain_password)), hashed_password)

\* [ok, hash, error]: ValueError for a short password, else the bcrypt hash
get_password_hash(password) ==
    IF Len(password) < MinPasswordChars
    THEN [ok |-> FALSE, hash |-> bcrypt_hashpw(<< >>),
          error |-> "Password must be at least 8 characters long"]
    ELSE [ok |-> TRUE, hash |-> bcrypt_hashpw(Utf8(truncate_password(password))),
          error |-> ""]

\* no hash computed yet
NoHash == [ok |-> FALSE, hash |-> bcrypt_hashpw(<< >>), error |-> ""]

\* index.py hashes with passlib's bcrypt context: no length check of its own,
\* bcrypt reads the first 72 bytes
pwd_context_hash(password) ==
    LET b == Utf8(password)
    IN  [ok |-> TRUE,
         hash |-> bcrypt_hashpw(SubSeq(b, 1, IF Len(b) > MaxPasswordBytes
                                                THEN MaxPasswordBytes ELSE Len(b))),
         error |-> ""]

pwd_context_verify(plain_password, hashed_password) ==
    LET b == Utf8(plain_password)
    IN  bcrypt_checkpw(SubSeq(b, 1, IF Len(b) > MaxPasswordBytes
                                       THEN MaxPasswordBytes ELSE Len(b)),
                       hashed_password)

\* UserCreate.validate_password (backend): TRUE when the password is accepted
validate_password(v) ==
    /\ ~(Len(v) < MinPasswordChars)
    /\ ~(Utf8Len(v) > MaxPasswordBytes)

(***************************************************************************)
(* Responses.  last records the response (status, detail, body) and what   *)
(* the request was about: the handler that served it, the email a register *)
(* or login named (subject), the identity the session authenticator        *)
(* resolved (caller; for main.py, which has no authenticator, the user who *)
(* sent the request), and the todo id it named (target).                   *)
(* detail is the message, as the sequence of the strings it is built from. *)
(* extra holds the part of the request body that its model does not        *)
(* declare.                                                                *)
(* body is a set of rows: the rows a list returns, the one row of a        *)
(* read/create/update, the public user of a register, the token of a login.*)
(***************************************************************************)
Null == "<null>"

Response(op, handler, subject, caller, target, auth, status, detail, body) ==
    [op |-> op, handler |-> handler, subject |-> subject, caller |-> caller,
     target |-> target, auth |-> auth, status |-> status, detail |-> detail,
     body |-> body, extra |-> << >>]

NoResponse == Response("none", "none", "", NoUser, NoTodo, "n/a", 0, << >>, {})

(***************************************************************************)
(* Token service.  A token is its claims and the key that signed it.       *)
(***************************************************************************)
SECRET_KEY == "SECRET_KEY"
DefaultExpireMinutes == 15
NoSub == "<no sub>"

create_access_token(sub, expires_delta, t) ==
    [kind |-> "jwt", sub |-> sub,
     exp |-> IF expires_delta # 0 THEN t + expires_delta ELSE t + DefaultExpireMinutes,
     sig |-> SECRET_KEY]

\* jose.jwt.decode (backend): JWTError for a token that does not parse, a bad
\* signature, or exp < now
jose_decode(token, t) ==
    /\ token.kind = "jwt"
    /\ token.sig = SECRET_KEY
    /\ ~(token.exp < t)

\* jwt.decode of PyJWT (index.py): expired when exp <= now
pyjwt_decode(token, t) ==
    /\ token.kind = "jwt"
    /\ token.sig = SECRET_KEY
    /\ ~(token.exp <= t)

\* what a client can put in the Authorization header: nothing, a string that is
\* no JWT, a token it holds, a token signed with another key, and a token signed
\* with SECRET_KEY that carries no "sub" claim
AbsentToken == [kind |-> "absent", sub |-> NoSub, exp |-> 0, sig |-> ""]
GarbageToken == [kind |-> "garbage", sub |-> NoSub, exp |-> 0, sig |-> ""]

TokenInputs ==
    {AbsentToken, GarbageToken}
    \cup held
    \cup {[kind |-> "jwt", sub |-> "alice", exp |-> now + ACCESS_TOKEN_EXPIRE_MINUTES,
           sig |-> "another key"]}
    \cup {[kind |-> "jwt", sub |-> NoSub, exp |-> now + ACCESS_TOKEN_EXPIRE_MINUTES,
           sig |-> SECRET_KEY]}

(***************************************************************************)
(* Session authenticator.  The result is [status, detail, user]: user is   *)
(* the set holding the resolved row, empty when the request is rejected.   *)
(***************************************************************************)
credentials_exception ==
    [status |-> 401, detail |-> <<"Could not validate credentials">>, user |-> {}]

\* HTTPBearer() with auto_error: no usable Authorization header
http_bearer_exception == [status |-> 403, detail |-> <<"Not authenticated">>, user |-> {}]

UsersByEmail(us, email) == {u \in us : u.email = email}

\* faulty variant: a logout revokes, the authenticator refuses every token while
\* the request served last was a logout
get_current_user_revoking(token, us, t) ==
    IF token.kind = "absent" THEN http_bearer_exception
    ELSE IF last.op = "logout" THEN credentials_exception
    ELSE IF ~jose_decode(token, t) THEN credentials_exception
    ELSE IF token.sub = NoSub THEN credentials_exception
    ELSE IF UsersByEmail(us, token.sub) = {} THEN credentials_exception
    ELSE [status |-> 200, detail |-> << >>, user |-> UsersByEmail(us, token.sub)]

get_current_user(token, us, t) ==
    IF token.kind = "absent" THEN http_bearer_exception
    ELSE IF ~jose_decode(token, t) THEN credentials_exception
    ELSE IF token.sub = NoSub THEN credentials_exception
    ELSE IF UsersByEmail(us, token.sub) = {} THEN credentials_exception
    ELSE [status |-> 200, detail |-> << >>, user |-> UsersByEmail(us, token.sub)]

\* faulty variant: the is_active test is missing
get_current_active_user_unchecked(current) == current

get_current_active_user(current) ==
    IF current.user = {} THEN current
    ELSE IF \E u \in current.user : ~u.is_active
         THEN [status |-> 400, detail |-> <<"Inactive user">>, user |-> {}]
         ELSE current

index_get_current_user(token, us, t) ==
    IF token.kind = "absent" THEN http_bearer_exception
    ELSE IF ~pyjwt_decode(token, t) THEN credentials_exception
    ELSE IF token.sub = NoSub THEN credentials_exception
    ELSE IF UsersByEmail(us, token.sub) = {} THEN credentials_exception
    ELSE [status |-> 200, detail |-> << >>, user |-> UsersByEmail(us, token.sub)]

\* the dependency each todo route of a handler declares
Authenticate(handler, token) ==
    IF handler = "backend"
    THEN get_current_active_user(get_current_user(token, users, now))
    ELSE index_get_current_user(token, users, now)

TheRow(found) == CHOOSE r \in found : TRUE

(***************************************************************************)
(* User directory: registration and login.  The handlers of backend/, of   *)
(* index.py and of main.py are the same text; backend/ differs from the    *)
(* other two in the request validation (UserCreate) and in the hasher.     *)
(***************************************************************************)
\* the files that serve /auth/register, /auth/login and /auth/logout
DirectoryHandlers == {"backend", "index", "main"}

HandlerApp(handler) == IF handler = "backend" THEN "backend" ELSE "api"

\* the request model's validation, before the handler runs
UserCreateValid(handler, password) ==
    IF handler = "backend" THEN validate_password(password) ELSE TRUE

HashFor(handler, password) ==
    IF handler = "backend" THEN get_password_hash(password)
    ELSE pwd_context_hash(password)

\* create_user's row: the id is a fresh key (uuid4, or the table's sequence)
create_user(us, email, hashed_password) ==
    [id |-> Cardinality(us) + 1, email |-> email,
     password_hash |-> hashed_password, is_active |-> TRUE]

UserPublic(user) == [id |-> user.id, email |-> user.email]

\* faulty variant: register without the existence check
RegisterCheck_unchecked(handler, email, password) ==
    /\ app = HandlerApp(handler)
    /\ IF ~UserCreateValid(handler, password)
       THEN /\ last' = Response("register", handler, email, NoUser, NoTodo, "n/a", 422,
                                <<"Value error, Password must be at least 8 characters long">>, {})
            /\ UNCHANGED inflight
       ELSE /\ Cardinality(inflight) < MaxInflight
            /\ inflight' = inflight \cup
                   {[handler |-> handler, email |-> email, password |-> password]}
            /\ UNCHANGED last
    /\ UNCHANGED <<hasher_vars, app, users, todos, nextTodoId, createdBy, held, now>>

\* register, up to the existence check, with room for limit requests between
\* their existence check and their insert
RegisterCheckWithin(limit, handler, email, password) ==
    /\ app = HandlerApp(handler)
    /\ IF ~UserCreateValid(handler, password)
       THEN /\ last' = Response("register", handler, email, NoUser, NoTodo, "n/a", 422,
                                <<"Value error, Password must be at least 8 characters long">>, {})
            /\ UNCHANGED inflight
       ELSE IF UsersByEmail(users, email) # {}
       THEN /\ last' = Response("register", handler, email, NoUser, NoTodo, "n/a", 409,
                                <<"User with this email already exists">>, {})
            /\ UNCHANGED inflight
       ELSE /\ Cardinality(inflight) < limit
            /\ inflight' = inflight \cup
                   {[handler |-> handler, email |-> email, password |-> password]}
            /\ UNCHANGED last
    /\ UNCHANGED <<hasher_vars, app, users, todos, nextTodoId, createdBy, held, now>>

\* register, up to the existence check
RegisterCheck(handler, email, password) ==
    RegisterCheckWithin(MaxInflight, handler, email, password)

\* faulty variant: the table has no unique constraint on email
RegisterCommit_no_unique(r) ==
    /\ r \in inflight
    /\ inflight' = inflight \ {r}
    /\ LET hashed == HashFor(r.handler, r.password)
           user == create_user(users, r.email, hashed.hash)
       IN  /\ hashed.ok
           /\ users' = users \cup {user}
           /\ last' = Response("register", r.handler, r.email, NoUser, NoTodo,
                               "n/a", 200, << >>, {UserPublic(user)})
    /\ UNCHANGED <<hasher_vars, app, todos, nextTodoId, createdBy, held, now>>

\* register, from create_user on: hash, insert (the table's unique constraint on
\* email decides), respond
RegisterCommit(r) ==
    /\ r \in inflight
    /\ inflight' = inflight \ {r}
    /\ LET hashed == HashFor(r.handler, r.password)
       IN  IF ~hashed.ok
           THEN /\ last' = Response("register", r.handler, r.email, NoUser, NoTodo, "n/a",
                                    400, <<"Registration failed: ", hashed.error>>, {})
                /\ UNCHANGED users
           ELSE IF UsersByEmail(users, r.email) # {}
           THEN /\ last' = Response("register", r.handler, r.email, NoUser, NoTodo, "n/a",
                                    400, <<"Registration failed: ",
                                           "IntegrityError: duplicate key value violates unique constraint">>, {})
                /\ UNCHANGED users
           ELSE LET user == create_user(users, r.email, hashed.hash)
                IN  /\ users' = users \cup {user}
                    /\ last' = Response("register", r.handler, r.email, NoUser, NoTodo,
                                        "n/a", 200, << >>, {UserPublic(user)})
    /\ UNCHANGED <<hasher_vars, app, todos, nextTodoId, createdBy, held, now>>

\* the rows authenticate_user returns: empty for None
authenticate_user(us, email, password) ==
    {u \in UsersByEmail(us, email) : verify_password(password, u.password_hash)}

index_authenticate_user(us, email, password) ==
    {u \in UsersByEmail(us, email) : pwd_context_verify(password, u.password_hash)}

AuthenticateFor(handler, us, email, password) ==
    IF handler = "backend" THEN authenticate_user(us, email, password)
    ELSE index_authenticate_user(us, email, password)

\* faulty variant: every token is issued in the name of one fixed account
TokenFor_fixed_subject(handler, user, t) ==
    create_access_token("alice", ACCESS_TOKEN_EXPIRE_MINUTES, t)

TokenFor(handler, user, t) ==
    create_access_token(user.email, ACCESS_TOKEN_EXPIRE_MINUTES, t)

\* faulty variant: the answer tells an unknown email from a wrong password
login_failure_by_cause(email) ==
    IF UsersByEmail(users, email) = {}
    THEN [status |-> 404, detail |-> <<"User not found">>]
    ELSE [status |-> 401, detail |-> <<"Incorrect password">>]

\* the HTTPException login raises when authenticate_user returns None; the
\* email of the request is in scope and not read
login_failure(email) == [status |-> 401, detail |-> <<"Incorrect email or password">>]

Login(handler, email, password) ==
    /\ app = HandlerApp(handler)
    /\ LET found == AuthenticateFor(handler, users, email, password)
       IN  IF found = {}
           THEN /\ last' = Response("login", handler, email, NoUser, NoTodo, "n/a",
                                    login_failure(email).status, login_failure(email).detail,
                                    {})
                /\ UNCHANGED held
           ELSE LET user == TheRow(found)
                    token == TokenFor(handler, user, now)
                IN  /\ last' = Response("login", handler, email, NoUser, NoTodo, "n/a",
                                        200, << >>,
                                        {[access_token |-> token, token_type |-> "bearer",
                                          id |-> user.id, email |-> user.email]})
                    /\ \/ /\ token \in held \/ Cardinality(held) < MaxHeld
                          /\ held' = held \cup {token}
                       \/ /\ token \notin held
                          /\ Cardinality(held) >= MaxHeld
                          /\ \E old \in held : held' = (held \ {old}) \cup {token}
    /\ UNCHANGED <<hasher_vars, app, users, todos, nextTodoId, createdBy, inflight, now>>

\* logout: a placeholder, no state
Logout(handler) ==
    /\ app = HandlerApp(handler)
    /\ last' = Response("logout", handler, "", NoUser, NoTodo, "n/a", 200,
                        <<"Successfully logged out">>, {})
    /\ UNCHANGED <<hasher_vars, app, users, todos, nextTodoId, createdBy, inflight, held, now>>

(***************************************************************************)
(* The environment: time passes; an administrator deactivates a user       *)
(* (the is_active column exists in backend/ only).                         *)
(***************************************************************************)
Tick ==
    /\ now < MaxTime
    /\ now' = now + ACCESS_TOKEN_EXPIRE_MINUTES
    /\ UNCHANGED <<hasher_vars, app, users, todos, nextTodoId, createdBy, inflight, held, last>>

Deactivate(email) ==
    /\ app = "backend"
    /\ \E u \in UsersByEmail(users, email) :
          /\ u.is_active
          /\ users' = (users \ {u}) \cup {[u EXCEPT !.is_active = FALSE]}
    /\ UNCHANGED <<hasher_vars, app, todos, nextTodoId, createdBy, inflight, held, now, last>>

(***************************************************************************)
(* Todo items.  A request body is a JSON object: a function from the keys  *)
(* it carries to their values.  A key the request model does not declare   *)
(* (such as user_id) is dropped when the body is parsed.                   *)
(***************************************************************************)
TodoFields == {"title", "description", "completed", "due_date", "priority"}
TodoIds == 1..MaxTodos
UserIds == 1..Cardinality(Emails)

CreateBodies ==
    {[title |-> "buy milk"], [title |-> ""], [completed |-> TRUE]}
    \cup {[title |-> "buy milk", user_id |-> u] : u \in UserIds}

UpdateBodies ==
    {[title |-> "call mom"], [title |-> ""], [title |-> Null], [completed |-> TRUE],
     << >>}
    \cup {[user_id |-> u] : u \in UserIds}

TodoDefaults ==
    [title |-> Null, description |-> Null, completed |-> FALSE, due_date |-> Null,
     priority |-> "medium"]

\* the keys of a body that TodoCreate and TodoUpdate do not declare
ExtraKeys(body) == [f \in (DOMAIN body) \ TodoFields |-> body[f]]

\* TodoBase.validate_title_not_empty (backend): the body is refused when its
\* title is the empty string; title is required in every variant
TodoCreateValid(handler, body) ==
    /\ "title" \in DOMAIN body
    /\ handler = "backend" => ~(body.title = "")

\* TodoCreate(**body): the declared fields, defaults for the absent ones
TodoCreate(body) ==
    [f \in TodoFields |-> IF f \in DOMAIN body THEN body[f] ELSE TodoDefaults[f]]

\* PriorityEnum (index.py: Priority)
PriorityEnum == {"low", "medium", "high"}

\* the date strings a client sends and the datetime each one parses to: the
\* ISO form with "Z" through fromisoformat, the date alone through fromisoformat
\* or strptime "%Y-%m-%d"; any other string raises ValueError
DateStrings == {"2025-01-01", "2025-01-01T00:00:00Z"}

validate_due_date(v) ==
    IF v \in DateStrings THEN "datetime(2025, 1, 1, 0, 0)" ELSE v

\* TodoUpdate(**body) passes validation: due_date parses (or is null), priority
\* is null or a member of the enum
TodoUpdateValid(body) ==
    /\ "due_date" \in DOMAIN body => body.due_date \in DateStrings \cup {Null}
    /\ "priority" \in DOMAIN body => body.priority \in PriorityEnum \cup {Null}

\* faulty variant: a request model that declares user_id as well
TodoUpdate_with_user_id(body) ==
    [f \in (DOMAIN body) \cap (TodoFields \cup {"user_id"}) |-> body[f]]

\* TodoUpdate(**body).model_dump(exclude_unset=True): the declared fields the
\* body carries
TodoUpdate(body) ==
    [f \in (DOMAIN body) \cap TodoFields |->
        IF f = "due_date" THEN validate_due_date(body[f]) ELSE body[f]]

\* faulty variant: the owner is a fixed user, not the caller
create_todo_fixed_owner(todo_create, user_id, id) ==
    [id |-> id, user_id |-> 1, title |-> todo_create.title,
     description |-> todo_create.description, completed |-> todo_create.completed,
     due_date |-> todo_create.due_date, priority |-> todo_create.priority,
     created_at |-> now, updated_at |-> now]

\* Todo(**todo_create.model_dump(), user_id=...), with the key the insert assigns
\* and the two timestamps their default_factory reads off the clock
create_todo(todo_create, user_id, id) ==
    [id |-> id, user_id |-> user_id, title |-> todo_create.title,
     description |-> todo_create.description, completed |-> todo_create.completed,
     due_date |-> todo_create.due_date, priority |-> todo_create.priority,
     created_at |-> now, updated_at |-> now]

\* main.py: no user_id, and completed is left to its default
main_create_todo(todo_create, id) ==
    [id |-> id, user_id |-> NoUser, title |-> todo_create.title,
     description |-> todo_create.description, completed |-> TodoDefaults.completed,
     due_date |-> todo_create.due_date, priority |-> todo_create.priority,
     created_at |-> now, updated_at |-> now]

\* the NOT NULL columns of table "todo" (user_id: nullable=False)
NotNullOk(row) ==
    /\ row.title # Null
    /\ row.user_id # NoUser
    /\ app = "api" => row.priority # Null

get_todos(tds, user_id) == {t \in tds : t.user_id = user_id}

main_get_todos(tds) == tds

\* the rows the lookup yields: empty when the handler answers 404
get_todo(tds, todo_id, user_id) ==
    {t \in tds : t.id = todo_id /\ t.user_id = user_id}

index_get_todo(tds, todo_id, user_id) ==
    LET got == {t \in tds : t.id = todo_id}
    IN  IF got = {} \/ (\E t \in got : t.user_id # user_id) THEN {} ELSE got

main_get_todo(tds, todo_id) == {t \in tds : t.id = todo_id}

Lookup(handler, tds, todo_id, user_id) ==
    CASE handler = "backend" -> get_todo(tds, todo_id, user_id)
      [] handler = "index" -> index_get_todo(tds, todo_id, user_id)
      [] OTHER -> main_get_todo(tds, todo_id)

\* faulty variant: the row is rebuilt from the patch, so a field other than the
\* title that the body does not carry goes back to its default
update_todo_all_fields(todo, update_data) ==
    [f \in DOMAIN todo |-> IF f \in DOMAIN update_data THEN update_data[f]
                           ELSE IF f \in TodoFields \ {"title"} THEN TodoDefaults[f]
                           ELSE todo[f]]

\* for field, value in update_data.items(): setattr(todo, field, value)
update_todo(todo, update_data) ==
    [f \in DOMAIN todo |-> IF f \in DOMAIN update_data THEN update_data[f] ELSE todo[f]]

not_found == [status |-> 404, detail |-> <<"Todo not found">>]

\* the dependency raised: the route's function never ran
Rejected(op, handler, a) ==
    Response(op, handler, "", NoUser, NoTodo, "Unauthenticated", a.status, a.detail, {})

\* what is the same in every todo handler once the caller is known; for main.py
\* the caller is whoever sent the request, and the handler does not read it
ListAs(handler, subject, auth, caller) ==
    /\ last' = Response("list", handler, subject, caller, NoTodo, auth, 200, << >>,
                        IF handler = "main" THEN main_get_todos(todos)
                        ELSE get_todos(todos, caller))
    /\ UNCHANGED <<todos, nextTodoId, createdBy>>

\* the create handler, with room for limit rows in table todo
CreateAsWithin(limit, handler, subject, auth, caller, body) ==
    LET Answer(target, status, detail, rows) ==
            [Response("create", handler, subject, caller, target, auth, status, detail,
                      rows) EXCEPT !.extra = ExtraKeys(body)]
    IN  IF ~TodoCreateValid(handler, body)
        THEN /\ last' = Answer(NoTodo, 422, <<"validation error">>, {})
             /\ UNCHANGED <<todos, nextTodoId, createdBy>>
        ELSE LET row == IF handler = "main"
                        THEN main_create_todo(TodoCreate(body), nextTodoId)
                        ELSE create_todo(TodoCreate(body), caller, nextTodoId)
             IN  IF ~NotNullOk(row)
                 THEN /\ last' = IF handler = "backend"
                                 THEN Answer(NoTodo, 422,
                                             <<"Failed to create todo: ",
                                               "IntegrityError: null value violates not-null constraint">>,
                                             {})
                                 ELSE Answer(NoTodo, 500, <<"Internal Server Error">>, {})
                      /\ UNCHANGED <<todos, nextTodoId, createdBy>>
                 ELSE /\ nextTodoId <= limit
                      /\ todos' = todos \cup {row}
                      /\ nextTodoId' = nextTodoId + 1
                      /\ createdBy' = (row.id :> caller) @@ createdBy
                      /\ last' = Answer(row.id, 200, << >>, {row})

CreateAs(handler, subject, auth, caller, body) ==
    CreateAsWithin(MaxTodos, handler, subject, auth, caller, body)

GetAs(handler, subject, auth, caller, todo_id) ==
    /\ LET found == Lookup(handler, todos, todo_id, caller)
       IN  last' = IF found = {}
                   THEN Response("get", handler, subject, caller, todo_id, auth,
                                 not_found.status, not_found.detail, {})
                   ELSE Response("get", handler, subject, caller, todo_id, auth, 200,
                                 << >>, found)
    /\ UNCHANGED <<todos, nextTodoId, createdBy>>

UpdateAs(handler, subject, auth, caller, todo_id, body) ==
    LET Answer(status, detail, rows) ==
            [Response("update", handler, subject, caller, todo_id, auth, status, detail,
                      rows) EXCEPT !.extra = ExtraKeys(body)]
        found == Lookup(handler, todos, todo_id, caller)
    IN  IF ~TodoUpdateValid(body)
        THEN /\ last' = Answer(422, <<"validation error">>, {})
             /\ UNCHANGED <<todos, nextTodoId, createdBy>>
        ELSE IF found = {}
        THEN /\ last' = Answer(not_found.status, not_found.detail, {})
             /\ UNCHANGED <<todos, nextTodoId, createdBy>>
        ELSE LET todo == TheRow(found)
                 row == update_todo(todo, TodoUpdate(body))
             IN  IF ~NotNullOk(row)
                 THEN /\ last' = Answer(500, <<"Internal Server Error">>, {})
                      /\ UNCHANGED <<todos, nextTodoId, createdBy>>
                 ELSE /\ todos' = (todos \ {todo}) \cup {row}
                      /\ last' = Answer(200, << >>, {row})
                      /\ UNCHANGED <<nextTodoId, createdBy>>

\* faulty variant: the row is deleted by its id before the owner is compared
DeleteAs_delete_first(handler, subject, auth, caller, todo_id) ==
    LET found == Lookup(handler, todos, todo_id, caller)
    IN  /\ todos' = {t \in todos : t.id # todo_id}
        /\ last' = IF found = {}
                   THEN Response("delete", handler, subject, caller, todo_id, auth,
                                 not_found.status, not_found.detail, {})
                   ELSE Response("delete", handler, subject, caller, todo_id, auth, 200,
                                 <<"Todo deleted successfully">>, {})
        /\ UNCHANGED <<nextTodoId, createdBy>>

DeleteAs(handler, subject, auth, caller, todo_id) ==
    LET found == Lookup(handler, todos, todo_id, caller)
    IN  IF found = {}
        THEN /\ last' = Response("delete", handler, subject, caller, todo_id, auth,
                                 not_found.status, not_found.detail, {})
             /\ UNCHANGED <<todos, nextTodoId, createdBy>>
        ELSE /\ todos' = todos \ found
             /\ last' = Response("delete", handler, subject, caller, todo_id, auth, 200,
                                 <<"Todo deleted successfully">>, {})
             /\ UNCHANGED <<nextTodoId, createdBy>>

(***************************************************************************)
(* The todo routes.  In backend/ and index.py every route depends on the   *)
(* session authenticator; main.py's routes take no credentials.            *)
(***************************************************************************)
AuthHandlers == {"backend", "index"}

\* the users who may send a request to main.py; NoUser is an anonymous client
Senders == {u.id : u \in users} \cup {NoUser}

ListTodos(handler, token) ==
    /\ app = HandlerApp(handler)
    /\ LET a == Authenticate(handler, token)
       IN  IF a.user = {}
           THEN /\ last' = Rejected("list", handler, a)
                /\ UNCHANGED <<todos, nextTodoId, createdBy>>
           ELSE ListAs(handler, "", "Authenticated", TheRow(a.user).id)
    /\ UNCHANGED <<hasher_vars, app, users, inflight, held, now>>

\* the dependency is resolved before the body is read
CreateTodoWithin(limit, handler, token) ==
    /\ app = HandlerApp(handler)
    /\ LET a == Authenticate(handler, token)
       IN  IF a.user = {}
           THEN /\ last' = Rejected("create", handler, a)
                /\ UNCHANGED <<todos, nextTodoId, createdBy>>
           ELSE \E body \in CreateBodies :
                    CreateAsWithin(limit, handler, "", "Authenticated",
                                   TheRow(a.user).id, body)
    /\ UNCHANGED <<hasher_vars, app, users, inflight, held, now>>

CreateTodo(handler, token) == CreateTodoWithin(MaxTodos, handler, token)

GetTodo(handler, token, todo_id) ==
    /\ app = HandlerApp(handler)
    /\ LET a == Authenticate(handler, token)
       IN  IF a.user = {}
           THEN /\ last' = Rejected("get", handler, a)
                /\ UNCHANGED <<todos, nextTodoId, createdBy>>
           ELSE GetAs(handler, "", "Authenticated", TheRow(a.user).id, todo_id)
    /\ UNCHANGED <<hasher_vars, app, users, inflight, held, now>>

\* the update route, its body drawn from bodies
UpdateTodoFrom(bodies, handler, token, todo_id) ==
    /\ app = HandlerApp(handler)
    /\ LET a == Authenticate(handler, token)
       IN  IF a.user = {}
           THEN /\ last' = Rejected("update", handler, a)
                /\ UNCHANGED <<todos, nextTodoId, createdBy>>
           ELSE \E body \in bodies :
                    UpdateAs(handler, "", "Authenticated", TheRow(a.user).id,
                             todo_id, body)
    /\ UNCHANGED <<hasher_vars, app, users, inflight, held, now>>

UpdateTodo(handler, token, todo_id) == UpdateTodoFrom(UpdateBodies, handler, token, todo_id)

DeleteTodo(handler, token, todo_id) ==
    /\ app = HandlerApp(handler)
    /\ LET a == Authenticate(handler, token)
       IN  IF a.user = {}
           THEN /\ last' = Rejected("delete", handler, a)
                /\ UNCHANGED <<todos, nextTodoId, createdBy>>
           ELSE DeleteAs(handler, "", "Authenticated", TheRow(a.user).id, todo_id)
    /\ UNCHANGED <<hasher_vars, app, users, inflight, held, now>>

MainListTodos(sender) ==
    /\ app = "api"
    /\ ListAs("main", "", "n/a", sender)
    /\ UNCHANGED <<hasher_vars, app, users, inflight, held, now>>

MainCreateTodo(sender, body) ==
    /\ app = "api"
    /\ CreateAs("main", "", "n/a", sender, body)
    /\ UNCHANGED <<hasher_vars, app, users, inflight, held, now>>

MainGetTodo(sender, todo_id) ==
    /\ app = "api"
    /\ GetAs("main", "", "n/a", sender, todo_id)
    /\ UNCHANGED <<hasher_vars, app, users, inflight, held, now>>

MainUpdateTodo(sender, todo_id, body) ==
    /\ app = "api"
    /\ UpdateAs("main", "", "n/a", sender, todo_id, body)
    /\ UNCHANGED <<hasher_vars, app, users, inflight, held, now>>

MainDeleteTodo(sender, todo_id) ==
    /\ app = "api"
    /\ DeleteAs("main", "", "n/a", sender, todo_id)
    /\ UNCHANGED <<hasher_vars, app, users, inflight, held, now>>

(***************************************************************************)
(* The specification.                                                      *)
(***************************************************************************)
Init ==
    /\ app \in Apps
    /\ users = {}
    /\ todos = {}
    /\ nextTodoId = 1
    /\ createdBy = << >>
    /\ inflight = {}
    /\ held = {}
    /\ now = 0
    /\ last = NoResponse
    /\ hash_password = << >>
    /\ check_password = << >>
    /\ stored_hash = NoHash
    /\ verified = "not run"

Next ==
    \/ \E h \in DirectoryHandlers, e \in Emails, p \in Passwords : RegisterCheck(h, e, p)
    \/ \E r \in inflight : RegisterCommit(r)
    \/ \E h \in DirectoryHandlers, e \in Emails, p \in Passwords : Login(h, e, p)
    \/ \E h \in DirectoryHandlers : Logout(h)
    \/ Tick
    \/ \E e \in Emails : Deactivate(e)
    \/ \E h \in AuthHandlers, t \in TokenInputs : ListTodos(h, t)
    \/ \E h \in AuthHandlers, t \in TokenInputs : CreateTodo(h, t)
    \/ \E h \in AuthHandlers, t \in TokenInputs, i \in TodoIds : GetTodo(h, t, i)
    \/ \E h \in AuthHandlers, t \in TokenInputs, i \in TodoIds : UpdateTodo(h, t, i)
    \/ \E h \in AuthHandlers, t \in TokenInputs, i \in TodoIds : DeleteTodo(h, t, i)
    \/ \E s \in Senders : MainListTodos(s)
    \/ \E s \in Senders, b \in CreateBodies : MainCreateTodo(s, b)
    \/ \E s \in Senders, i \in TodoIds : MainGetTodo(s, i)
    \/ \E s \in Senders, i \in TodoIds, b \in UpdateBodies : MainUpdateTodo(s, i, b)
    \/ \E s \in Senders, i \in TodoIds : MainDeleteTodo(s, i)

Spec == Init /\ [][Next]_vars

(***************************************************************************)
(* Registrations that overlap: up to MaxRacing requests are between their  *)
(* existence check and their insert at the same time.                      *)
(***************************************************************************)
MaxRacing == 2

PwOther == <<"l", "e", "t", "m", "e", "i", "n", "1">>

RacePasswords == Passwords \cup {PwOther}

NextRace ==
    \/ \E h \in DirectoryHandlers, e \in Emails, p \in RacePasswords :
          RegisterCheckWithin(MaxRacing, h, e, p)
    \/ \E r \in inflight : RegisterCommit(r)

SpecRace == Init /\ [][NextRace]_vars

(***************************************************************************)
(* The credential hasher taken alone: one password is hashed, another is   *)
(* verified against the result.  app says whose hasher: backend/'s bcrypt  *)
(* calls or the passlib context of index.py and main.py.                   *)
(***************************************************************************)
MaxSuffix == 2

Pad(n) == [i \in 1..n |-> "a"]

SuffixChars == {"x", "y", "e_acute"}

\* passwords around the 71 and 72 byte marks: 70 bytes of "a" and then up to
\* MaxSuffix characters of one or two bytes each
LongPasswords ==
    {Pad(MaxPasswordBytes - 2) \o s :
        s \in UNION {[1..n -> SuffixChars] : n \in 0..MaxSuffix}}

HasherPasswords == Passwords \cup LongPasswords

HashPassword ==
    /\ stored_hash = NoHash
    /\ stored_hash' = HashFor(IF app = "backend" THEN "backend" ELSE "index",
                              hash_password)
    /\ UNCHANGED <<app, users, todos, nextTodoId, createdBy, inflight, held, now, last,
                   hash_password, check_password, verified>>

VerifyPassword ==
    /\ stored_hash.ok
    /\ verified = "not run"
    /\ verified' = IF (IF app = "backend"
                       THEN verify_password(check_password, stored_hash.hash)
                       ELSE pwd_context_verify(check_password, stored_hash.hash))
                   THEN "match" ELSE "no match"
    /\ UNCHANGED <<app, users, todos, nextTodoId, createdBy, inflight, held, now, last,
                   hash_password, check_password, stored_hash>>

InitHasher ==
    /\ app \in Apps
    /\ users = {}
    /\ todos = {}
    /\ nextTodoId = 1
    /\ createdBy = << >>
    /\ inflight = {}
    /\ held = {}
    /\ now = 0
    /\ last = NoResponse
    /\ hash_password \in HasherPasswords
    /\ check_password \in HasherPasswords
    /\ stored_hash = NoHash
    /\ verified = "not run"

NextHasher ==
    \/ HashPassword
    \/ VerifyPassword

SpecHasher == InitHasher /\ [][NextHasher]_vars

(***************************************************************************)
(* Claims.                                                                 *)
(***************************************************************************)

\* C1: for users A # B and a todo item A created, B's read-one, update and
\* delete of that item's id answer 404 "Todo not found", the answer for an id
\* that does not exist, and never return the item.
C1_CrossTenantNotFound ==
    (/\ last.op \in {"get", "update", "delete"}
     /\ last.auth # "Unauthenticated"
     /\ last.caller # NoUser
     /\ last.target \in DOMAIN createdBy
     /\ createdBy[last.target] # last.caller)
    => (/\ last.status = not_found.status
        /\ last.detail = not_found.detail
        /\ last.body = {})

\* C2: a list answered to user U returns exactly the rows of table todo whose
\* user_id is U.
C2_ListExactlyOwn ==
    (last.op = "list" /\ last.status = 200 /\ last.caller # NoUser)
    => last.body = {t \in todos : t.user_id = last.caller}

\* C3: a create that succeeds stores a row whose user_id is the authenticated
\* caller, whatever the body carries; no row has another owner or none.
C3_CreateOwnedByCaller ==
    /\ (last.op = "create" /\ last.status = 200)
       => (/\ last.auth = "Authenticated"
           /\ last.caller # NoUser
           /\ last.body # {}
           /\ last.body \subseteq todos
           /\ \A r \in last.body : r.id = last.target /\ r.user_id = last.caller)
    /\ \A t \in todos : t.user_id # NoUser /\ t.user_id \in {u.id : u \in users}

\* a create succeeded whose body named another user as the owner
C3_Witness ==
    /\ last.op = "create"
    /\ last.status = 200
    /\ "user_id" \in DOMAIN last.extra
    /\ last.extra.user_id # last.caller
    /\ last.extra.user_id \in {u.id : u \in users}

\* C4: the owner of a row is the user who created it, in every state, whatever
\* updates were made and by whom.
C4_OwnerImmutable ==
    \A t \in todos : t.id \in DOMAIN createdBy /\ t.user_id = createdBy[t.id]

\* an update succeeded whose body named another user as the owner
C4_Witness ==
    /\ last.op = "update"
    /\ last.status = 200
    /\ "user_id" \in DOMAIN last.extra
    /\ last.extra.user_id # last.caller
    /\ last.extra.user_id \in {u.id : u \in users}
    /\ last.body \subseteq todos

\* C5: every stored todo has a non-empty title.
C5_TitleNonEmpty ==
    \A t \in todos : t.title # "" /\ t.title # Null

\* a step that is a todo request of handler h presenting token t
TodoRequest(h, t) ==
    \/ ListTodos(h, t)
    \/ CreateTodo(h, t)
    \/ \E i \in TodoIds : GetTodo(h, t, i)
    \/ \E i \in TodoIds : UpdateTodo(h, t, i)
    \/ \E i \in TodoIds : DeleteTodo(h, t, i)

InactiveSubject(t) == \E u \in users : u.email = t.sub /\ ~u.is_active

\* C6: a todo request that presents the correctly signed, unexpired token of a
\* user whose is_active is false is not authenticated and leaves table todo as
\* it was.
C6_DeactivatedTokenRejected ==
    [][\A h \in AuthHandlers, t \in held :
          (/\ t.sig = SECRET_KEY
           /\ now < t.exp
           /\ InactiveSubject(t)
           /\ TodoRequest(h, t))
          => (/\ last'.auth = "Unauthenticated"
              /\ last'.status # 200
              /\ last'.body = {}
              /\ todos' = todos
              /\ nextTodoId' = nextTodoId)]_vars

\* the holder of an unexpired token was deactivated and a request was refused
\* for it
C6_Witness ==
    /\ last.op \in {"list", "create", "get", "update", "delete"}
    /\ last.auth = "Unauthenticated"
    /\ last.detail = <<"Inactive user">>
    /\ \E t \in held : t.sig = SECRET_KEY /\ now < t.exp /\ InactiveSubject(t)

\* C7: every rejection by the session authenticator is the one response 401
\* "Could not validate credentials".
C7_UniformRejection ==
    last.auth = "Unauthenticated"
    => (/\ last.status = credentials_exception.status
        /\ last.detail = credentials_exception.detail)

\* C8: a login that names a user whose is_active is false fails with 401
\* "Incorrect email or password" and issues no token.
C8_InactiveCannotLogin ==
    [][\A h \in DirectoryHandlers, e \in Emails, p \in Passwords :
          ((\E u \in users : u.email = e /\ ~u.is_active) /\ Login(h, e, p))
          => (/\ last'.status = 401
              /\ last'.detail = <<"Incorrect email or password">>
              /\ last'.body = {}
              /\ held' = held)]_vars

\* C9: every login that fails answers 401 "Incorrect email or password" with no
\* body, whether the email is unknown or the password wrong.
C9_LoginFailureUniform ==
    (last.op = "login" /\ last.status # 200)
    => (/\ last.status = 401
        /\ last.detail = <<"Incorrect email or password">>
        /\ last.body = {})

\* a login failed for a registered email (the password was wrong)
C9_Witness ==
    /\ last.op = "login"
    /\ last.status = 401
    /\ UsersByEmail(users, last.subject) # {}

\* the passwords the specification calls valid
ValidPasswords == {p \in Passwords : validate_password(p)}

\* a registration of an email not registered, with a valid password, enters and
\* then inserts exactly one user
RegistersNewUser ==
    /\ \A h \in DirectoryHandlers, e \in Emails, p \in Passwords :
          (/\ UsersByEmail(users, e) = {}
           /\ p \in ValidPasswords
           /\ RegisterCheck(h, e, p))
          => (/\ inflight' = inflight \cup {[handler |-> h, email |-> e, password |-> p]}
              /\ users' = users)
    /\ \A r \in inflight :
          (/\ UsersByEmail(users, r.email) = {}
           /\ r.password \in ValidPasswords
           /\ RegisterCommit(r))
          => (/\ last'.op = "register"
              /\ last'.status = 200
              /\ \E u \in users' :
                    /\ u \notin users
                    /\ u.email = r.email
                    /\ users' = users \cup {u}
                    /\ last'.body = {UserPublic(u)})

\* what every step of register does: it answers a registration, or it admits
\* one to the insert; the formulas of C10 read no other step
RegisterStep == last'.op = "register" \/ inflight' # inflight

\* C10 as stated: a registration of an already registered email fails with 409
\* and leaves the directory as it was; a registration of an email not registered,
\* with a valid password, succeeds and adds exactly one user.
C10_DuplicateConflict ==
    [][RegisterStep =>
          /\ \A h \in DirectoryHandlers, e \in Emails, p \in Passwords :
                (UsersByEmail(users, e) # {} /\ RegisterCheck(h, e, p))
                => (/\ last'.op = "register"
                    /\ last'.status = 409
                    /\ users' = users
                    /\ inflight' = inflight)
          /\ RegistersNewUser]_vars

\* C10, amended: a registration of an already registered email fails and leaves
\* the directory as it was, with 409 when the request passes the request model's
\* validation and with 422 when it does not; a registration of an email not
\* registered, with a valid password, succeeds and adds exactly one user.
C10_DuplicateFails ==
    [][RegisterStep =>
          /\ \A h \in DirectoryHandlers, e \in Emails, p \in Passwords :
                (UsersByEmail(users, e) # {} /\ RegisterCheck(h, e, p))
                => (/\ last'.op = "register"
                    /\ last'.status = IF h = "backend" /\ p \notin ValidPasswords
                                      THEN 422 ELSE 409
                    /\ users' = users
                    /\ inflight' = inflight)
          /\ RegistersNewUser]_vars

\* a registration of a registered email was refused with 409, the row intact
C10_Witness ==
    /\ last.op = "register"
    /\ last.status = 409
    /\ \E u \in users : u.email = last.subject /\ u.password_hash.key = Utf8(PwGood)

\* C12: a password of at least 8 characters is hashed, and verifies against
\* its own hash, whatever its length in bytes.
C12_VerifyOwnHash ==
    /\ (stored_hash # NoHash /\ Len(hash_password) >= MinPasswordChars)
       => stored_hash.ok
    /\ (verified # "not run" /\ check_password = hash_password)
       => verified = "match"

\* a password longer than the 72 byte ceiling was hashed and verified against
\* its own hash
C12_Witness ==
    /\ verified = "match"
    /\ check_password = hash_password
    /\ Utf8Len(hash_password) > MaxPasswordBytes

\* the truncation the specification prescribes: whole characters are dropped
\* until the encoding fits the 72 byte ceiling
RECURSIVE CeilingTruncate(_)
CeilingTruncate(p) ==
    IF Utf8Len(p) > MaxPasswordBytes
    THEN CeilingTruncate(SubSeq(p, 1, Len(p) - 1))
    ELSE p

\* C13: two passwords of at least 8 characters that differ after truncation to
\* the 72 byte ceiling never verify against each other's hash.
C13_DistinctNeverVerify ==
    (/\ verified # "not run"
     /\ Len(hash_password) >= MinPasswordChars
     /\ Len(check_password) >= MinPasswordChars
     /\ CeilingTruncate(check_password) # CeilingTruncate(hash_password))
    => verified = "no match"

\* C11: no two rows of table user have the same email, however registrations
\* overlap.
C11_EmailUnique ==
    \A u1 \in users, u2 \in users : u1.email = u2.email => u1 = u2

\* two registrations of one email overlapped: the second insert was refused and
\* the email has its one row
C11_Witness ==
    /\ last.op = "register"
    /\ last.status = 400
    /\ Len(last.detail) = 2
    /\ Cardinality(UsersByEmail(users, last.subject)) = 1

\* C18: of two registrations of one email that both passed the existence check,
\* the first to insert creates the user and the other answers 409 "User with
\* this email already exists", as a registration after the insert would.
C18_RaceLoserConflict ==
    [][\A r \in inflight :
          RegisterCommit(r)
          => IF UsersByEmail(users, r.email) # {}
             THEN /\ users' = users
                  /\ last'.status = 409
                  /\ last'.detail = <<"User with this email already exists">>
             ELSE /\ Cardinality(users') = Cardinality(users) + 1
                  /\ last'.status = 200]_vars

\* C17: the message of an error is fixed text: no part of it is the text of an
\* exception the handler caught.
C17_NoInternalDetails ==
    last.status >= 400 => Len(last.detail) = 1

\* C14: a registration whose password has fewer than 8 characters or more than
\* 72 bytes answers 422 and goes no further: nothing is hashed, nothing stored.
C14_InvalidPasswordRejected ==
    [][RegisterStep =>
          \A h \in DirectoryHandlers, e \in Emails, p \in Passwords \ ValidPasswords :
             RegisterCheck(h, e, p)
             => (/\ last'.op = "register"
                 /\ last'.status = 422
                 /\ users' = users
                 /\ inflight' = inflight)]_vars

TodoOps == {"list", "create", "get", "update", "delete"}

\* the user a token names is registered and active
ActiveSubject(t) == \E u \in users : u.email = t.sub /\ u.is_active

\* C15: login stamps a token with exp = now + ACCESS_TOKEN_EXPIRE_MINUTES; a token
\* signed with SECRET_KEY whose user is registered and active authenticates a
\* request when now < exp and is answered 401 "Could not validate credentials"
\* when now >= exp.
C15_ExpiryBoundary ==
    [][/\ \A row \in last'.body :
             (last'.op = "login" /\ last' # last)
             => row.access_token.exp = now + ACCESS_TOKEN_EXPIRE_MINUTES
       /\ last'.op \in TodoOps
          => \A h \in AuthHandlers, t \in held :
                (t.sig = SECRET_KEY /\ ActiveSubject(t) /\ TodoRequest(h, t))
                => IF now < t.exp
                   THEN last'.auth = "Authenticated"
                   ELSE /\ last'.auth = "Unauthenticated"
                        /\ last'.status = credentials_exception.status
                        /\ last'.detail = credentials_exception.detail]_vars

\* C16: nothing the server does revokes a token: in every state, after a logout
\* too, the authenticator resolves an unexpired token signed with SECRET_KEY to
\* its user when that user is registered and active.
C16_NoRevocation ==
    \A h \in AuthHandlers, t \in held :
       (/\ app = HandlerApp(h)
        /\ t.sig = SECRET_KEY
        /\ now < t.exp
        /\ ActiveSubject(t))
       => Authenticate(h, t).user = UsersByEmail(users, t.sub)

\* a logout was served and the token a client holds still authenticates
C16_Witness ==
    /\ last.op = "logout"
    /\ \E h \in AuthHandlers, t \in held :
          /\ app = HandlerApp(h)
          /\ now < t.exp
          /\ Authenticate(h, t).user # {}

\* C19: a todo request that was not authenticated as a registered user returns
\* no row and leaves table todo as it was.
C19_AuthBeforeTodo ==
    [][(last'.op \in TodoOps /\ last'.auth # "Authenticated")
       => (/\ last'.status # 200
           /\ last'.body = {}
           /\ todos' = todos)]_vars

\* C20: an update or a delete that answers 404 leaves table todo as it was.
C20_NotFoundFrame ==
    [][(last'.op \in {"update", "delete"} /\ last'.status = not_found.status)
       => (/\ todos' = todos
           /\ nextTodoId' = nextTodoId
           /\ createdBy' = createdBy)]_vars

\* an update or a delete of another user's existing item answered 404
C20_Witness ==
    /\ last.op \in {"update", "delete"}
    /\ last.status = not_found.status
    /\ last.caller # NoUser
    /\ \E t \in todos : t.id = last.target /\ t.user_id # last.caller

(***************************************************************************)
(* Patches.  One user registers, logs in, creates up to MaxRows rows and    *)
(* updates them; the clock moves, so a row can be older than its update.   *)
(* A patch carries some declared fields and not the others, an    *)
(* explicit null, a value that fails validation, or undeclared keys.       *)
(***************************************************************************)
MaxRows == 2
PatchOwner == "alice"

PatchValues ==
    [title |-> "call mom", description |-> "today", completed |-> TRUE,
     due_date |-> "2025-01-01T00:00:00Z", priority |-> "high"]

PatchBodies ==
    {<< >>, PatchValues,
     [description |-> PatchValues.description],
     [description |-> Null],
     [completed |-> PatchValues.completed, due_date |-> "2025-01-01",
      priority |-> PatchValues.priority],
     [due_date |-> "tomorrow"],
     [priority |-> "urgent"],
     [title |-> PatchValues.title, id |-> MaxRows, user_id |-> Cardinality(Emails),
      created_at |-> MaxTime]}

NextPatch ==
    \/ \E h \in AuthHandlers : RegisterCheck(h, PatchOwner, PwGood)
    \/ \E r \in inflight : RegisterCommit(r)
    \/ \E h \in AuthHandlers : Login(h, PatchOwner, PwGood)
    \/ Tick
    \/ \E h \in AuthHandlers, t \in held : CreateTodoWithin(MaxRows, h, t)
    \/ \E h \in AuthHandlers, t \in held, i \in 1..MaxRows :
          UpdateTodoFrom(PatchBodies, h, t, i)

SpecPatch == Init /\ [][NextPatch]_vars

\* a step that is the update of row i with body b by the user token t names
PatchStep(h, t, i, b) ==
    /\ app = HandlerApp(h)
    /\ Authenticate(h, t).user # {}
    /\ UpdateAs(h, "", "Authenticated", TheRow(Authenticate(h, t).user).id, i, b)

\* C21: an update that answers 200 gives each declared field the body carries the
\* body's value (a due_date string, the datetime it denotes) and leaves the rest
\* as it was: the row's other fields, its id, user_id, created_at and updated_at,
\* and every other row of table todo; the row it returns is the row it stored.
C21_UpdateFrame ==
    [][(last'.op = "update" /\ last'.status = 200)
       => \A h \in AuthHandlers, t \in held, i \in 1..MaxRows, b \in PatchBodies :
             PatchStep(h, t, i, b)
             => \E old \in todos, new \in todos' :
                   /\ old.id = i
                   /\ old.user_id = TheRow(Authenticate(h, t).user).id
                   /\ DOMAIN new = DOMAIN old
                   /\ \A f \in DOMAIN old :
                         new[f] = IF f \in TodoFields \cap DOMAIN b
                                  THEN (IF f = "due_date" THEN validate_due_date(b[f])
                                        ELSE b[f])
                                  ELSE old[f]
                   /\ todos' \ {new} = todos \ {old}
                   /\ last'.body = {new}]_vars

\* an update of one of two rows answered 200: its body carried a title and the
\* undeclared keys id, user_id and created_at; the row keeps the description an
\* earlier patch gave it and the time it was created at
C21_Witness ==
    /\ last.op = "update"
    /\ last.status = 200
    /\ Cardinality(todos) = MaxRows
    /\ {"id", "user_id", "created_at"} \subseteq DOMAIN last.extra
    /\ \E r \in last.body :
          /\ r \in todos
          /\ r.title = PatchValues.title
          /\ r.description = PatchValues.description
          /\ r.id # last.extra.id
          /\ r.user_id # last.extra.user_id
          /\ r.created_at # last.extra.created_at
          /\ r.created_at < now

\* a step that is a login answered with a token
LoginStep ==
    /\ last' # last \/ held' # held
    /\ last'.op = "login"
    /\ last'.status = 200

\* C22: a login that succeeds for email e and password p returns a token whose
\* subject is the one registered user whose stored hash p verifies against, with
\* that user's id and email beside it, and the client holds it; and in every
\* state the authenticator resolves a token a client holds, while it is
\* unexpired and its user is registered and active, to exactly that one user.
C22_TokenIdentity ==
    /\ [][LoginStep
          => \A h \in DirectoryHandlers, e \in Emails, p \in Passwords :
                Login(h, e, p)
                => \E u \in users :
                      /\ AuthenticateFor(h, users, e, p) = {u}
                      /\ u.email = e
                      /\ \A row \in last'.body :
                            /\ row.access_token.sub = u.email
                            /\ row.id = u.id
                            /\ row.email = u.email
                            /\ row.access_token \in held']_vars
    /\ [](\A h \in AuthHandlers, t \in held :
             (/\ app = HandlerApp(h)
              /\ now < t.exp
              /\ ActiveSubject(t))
             => /\ Cardinality(Authenticate(h, t).user) = 1
                /\ \A u \in Authenticate(h, t).user : u.email = t.sub
                /\ \A u \in users : u.email = t.sub => u \in Authenticate(h, t).user)

\* with two users registered, the second one logged in and a todo request that
\* presented the token was served in that user's name
C22_Witness ==
    /\ Cardinality(users) = Cardinality(Emails)
    /\ last.op \in TodoOps
    /\ last.auth = "Authenticated"
    /\ \E h \in AuthHandlers, t \in held, u \in users :
          /\ app = HandlerApp(h)
          /\ now < t.exp
          /\ u.email = t.sub
          /\ u.id = Cardinality(Emails)
          /\ Authenticate(h, t).user = {u}
          /\ last.caller = u.id

====
